---- MODULE Spec2Model ----
(***************************************************************************)
(* A model of lib/ws281x-native.js: the pixel pipeline of the SK6812 /      *)
(* WS281x driver (index remapping, RGB->RGBW conversion, gamma correction,  *)
(* frame encoding) and the lifecycle around it (init, setIndexMapping,      *)
(* render, setBrightness, reset).                                           *)
(*                                                                         *)
(* Representation.                                                         *)
(*  - A 32-bit colour word is the tuple of its four bytes, most significant *)
(*    first: 0x04050607 is <<4, 5, 6, 7>>.  Shifts, masks and ors of the    *)
(*    source are computed on that representation, two's complement, 32 bit. *)
(*  - A JavaScript number that takes part in floating-point arithmetic is   *)
(*    an IEEE-754 double: sign, 53-bit significand, exponent.  Every        *)
(*    operation is rounded to nearest, ties to even, as the language does.  *)
(*  - null and undefined are the strings "null" and "undefined" where a     *)
(*    flag or an option may hold them; a nullable buffer or mapping is a    *)
(*    record with an isNull field.                                          *)
(***************************************************************************)
EXTENDS Integers, Sequences, FiniteSets, TLC

(***************************************************************************)
(* The module-level state of lines 4-11, and what a caller observes.       *)
(***************************************************************************)
VARIABLES
    _isInitialized,       \* line 4
    _indexMapping,        \* line 5: [isNull, map]; map[i + 1] is entry i
    _outputBuffer,        \* line 6: [isNull, bytes]
    _useGammaCorrection,  \* line 7: "null", "true" or "false"
    _rgbToRgbw,           \* line 8: "null", "true" or "false"
    _gammaTable,          \* line 9: the 256 bytes of the Uint8Array
    bindings,             \* line 11: "stub" or "native", what getNativeBindings returned
    lastInit,             \* the arguments of the most recent call of init
    lifecycle,            \* the most recent of the calls of init and reset
    call                  \* the most recent call: arguments, outcome, what it did

vars == << _isInitialized, _indexMapping, _outputBuffer, _useGammaCorrection,
           _rgbToRgbw, _gammaTable, bindings, lastInit, lifecycle, call >>

(***************************************************************************)
(* Bounds of the model (not constants of the program).                     *)
(***************************************************************************)
\* The largest strip length passed to init, and the longest pixel sequence
\* and index mapping passed to render and setIndexMapping.
MaxLeds == 2

(***************************************************************************)
(* Bytes and 32-bit words                                                  *)
(***************************************************************************)
\* The operations on words are functions, so that an operand is a value
\* when the operation starts.
Word == Seq(Int)

\* x | y on two bytes, bit by bit; x | 0 = x and 0 | y = y.
ByteOr[x \in Nat, y \in Nat] ==
    IF x = 0 THEN y
    ELSE IF y = 0 THEN x
    ELSE (IF (x % 2 = 1) \/ (y % 2 = 1) THEN 1 ELSE 0) + 2 * ByteOr[x \div 2, y \div 2]

\* ToInt32 of an integer v with |v| < 2^31, as four bytes (two's complement).
Int32[v \in Int] ==
    << (v \div 16777216) % 256, (v \div 65536) % 256, (v \div 256) % 256, v % 256 >>

\* w << (8 * k) on a 32-bit word: the top k bytes fall off.
ShlBytes[w \in Word, k \in Nat] ==
    << IF 1 + k <= 4 THEN w[1 + k] ELSE 0, IF 2 + k <= 4 THEN w[2 + k] ELSE 0,
       IF 3 + k <= 4 THEN w[3 + k] ELSE 0, IF 4 + k <= 4 THEN w[4 + k] ELSE 0 >>

\* a | b on 32-bit words.
WordOr[a \in Word, b \in Word] ==
    << ByteOr[a[1], b[1]], ByteOr[a[2], b[2]], ByteOr[a[3], b[3]], ByteOr[a[4], b[4]] >>

\* (color >> (8 * k)) & 0xff : byte k of a word, k = 0 the least significant.
ByteAt(color, k) == color[4 - k]

(***************************************************************************)
(* IEEE-754 double arithmetic.  A natural number below 2^63 is held in      *)
(* three limbs <<high, mid, low>> of 21 bits; a double is                   *)
(* [sign, m, e] with value sign * m * 2^e and 2^52 <= m < 2^53, or m = 0.   *)
(* The operations are functions, so that an operand is a value when the     *)
(* operation starts.                                                       *)
(***************************************************************************)
Limb == 2 ^ 21

BigNat  == Int \X Int \X Int
Double  == [sign : {-1, 1}, m : BigNat, e : Int]

BigZero == <<0, 0, 0>>
BigOne  == <<0, 0, 1>>
Two52   == <<2 ^ 10, 0, 0>>
Two53   == <<2 ^ 11, 0, 0>>

\* Carry (or borrow) propagation: limbs may come in out of range.
BigNorm[x \in BigNat] ==
    LET m1 == x[2] + (x[3] \div Limb)
    IN  << x[1] + (m1 \div Limb), m1 % Limb, x[3] % Limb >>

BigAdd[x \in BigNat, y \in BigNat] == BigNorm[<<x[1] + y[1], x[2] + y[2], x[3] + y[3]>>]
\* x - y for x >= y
BigSub[x \in BigNat, y \in BigNat] == BigNorm[<<x[1] - y[1], x[2] - y[2], x[3] - y[3]>>]
\* x * k for a small k (k <= 1024)
BigMulSmall[x \in BigNat, k \in Int] == BigNorm[<<x[1] * k, x[2] * k, x[3] * k>>]
BigOdd[x \in BigNat] == x[3] % 2 = 1
BigLess[x \in BigNat, y \in BigNat] ==
    \/ x[1] < y[1]
    \/ x[1] = y[1] /\ x[2] < y[2]
    \/ x[1] = y[1] /\ x[2] = y[2] /\ x[3] < y[3]

\* The number of bits of a limb n (0 for n = 0).
BitLen[n \in Int] == Cardinality({j \in 0..20 : 2 ^ j <= n})

\* The number of bits of x.
BigBitLen[x \in BigNat] ==
    IF x[1] > 0 THEN 42 + BitLen[x[1]]
    ELSE IF x[2] > 0 THEN 21 + BitLen[x[2]]
    ELSE BitLen[x[3]]

\* x * 2^k, for a result below 2^63
BigShl[x \in BigNat, k \in Int] ==
    LET limbs == k \div 21
        bits  == k % 21
        y     == IF limbs = 0 THEN x
                 ELSE IF limbs = 1 THEN <<x[2], x[3], 0>>
                 ELSE <<x[3], 0, 0>>
    IN  IF bits <= 10 THEN BigMulSmall[y, 2 ^ bits]
        ELSE BigMulSmall[BigMulSmall[y, 2 ^ 10], 2 ^ (bits - 10)]

\* floor(x / 2^k)
BigShr[x \in BigNat, k \in Int] ==
    LET limbs == k \div 21
        bits  == 2 ^ (k % 21)
        back  == Limb \div bits
        y     == IF limbs = 0 THEN x
                 ELSE IF limbs = 1 THEN <<0, x[1], x[2]>>
                 ELSE IF limbs = 2 THEN <<0, 0, x[1]>>
                 ELSE BigZero
    IN  << y[1] \div bits,
           (y[2] \div bits) + (y[1] % bits) * back,
           (y[3] \div bits) + (y[2] % bits) * back >>

\* x mod 2^k, for k <= 21
BigLowBits[x \in BigNat, k \in Int] == x[3] % (2 ^ k)

FZero == [sign |-> 1, m |-> BigZero, e |-> 0]

\* The double nearest to sign * n * 2^e (plus a non-zero tail below the last
\* bit of n when sticky), ties to even.  n < 2^63.
FRound[sign \in {-1, 1}, n \in BigNat, e \in Int, sticky \in BOOLEAN] ==
    IF n = BigZero THEN FZero
    ELSE LET len == BigBitLen[n]
         IN  IF len <= 53
             THEN \* it fits: exact (a sticky tail only comes with len > 53)
                  [sign |-> sign, m |-> BigShl[n, 53 - len], e |-> e - (53 - len)]
             ELSE LET k      == len - 53
                      kept   == BigShr[n, k]
                      low    == BigLowBits[n, k]
                      guard  == low \div (2 ^ (k - 1)) = 1
                      tail   == sticky \/ (low % (2 ^ (k - 1)) # 0)
                      up     == guard /\ (tail \/ BigOdd[kept])
                      r      == IF up THEN BigAdd[kept, BigOne] ELSE kept
                  IN  IF r = Two53
                      THEN [sign |-> sign, m |-> Two52, e |-> e + k + 1]
                      ELSE [sign |-> sign, m |-> r, e |-> e + k]

\* An integer literal or integer-valued variable, |k| < 2^21.
FInt[k \in Int] ==
    FRound[IF k < 0 THEN -1 ELSE 1, <<0, 0, IF k < 0 THEN -k ELSE k>>, 0, FALSE]

\* The literal 127.5 = 255 * 2^-1
F127_5 == FRound[1, <<0, 0, 255>>, -1, FALSE]

\* a < b
FLess[a \in Double, b \in Double] ==
    LET neg(x) == x.sign = -1 /\ x.m # BigZero
        magLess(x, y) ==
            IF y.m = BigZero THEN FALSE
            ELSE IF x.m = BigZero THEN TRUE
            ELSE x.e < y.e \/ (x.e = y.e /\ BigLess[x.m, y.m])
    IN  IF neg(a) /\ ~neg(b) THEN TRUE
        ELSE IF ~neg(a) /\ neg(b) THEN FALSE
        ELSE IF neg(a) THEN magLess(b, a)
        ELSE magLess(a, b)

\* Math.max, Math.min of three numbers
FMax2[a \in Double, b \in Double] == IF FLess[a, b] THEN b ELSE a
FMin2[a \in Double, b \in Double] == IF FLess[b, a] THEN b ELSE a
FMax3[a \in Double, b \in Double, c \in Double] == FMax2[FMax2[a, b], c]
FMin3[a \in Double, b \in Double, c \in Double] == FMin2[FMin2[a, b], c]

\* k * d for an integer 0 <= k <= 255 (an exact operand): the exact product,
\* rounded.
FMulInt[k \in Int, d \in Double] == FRound[d.sign, BigMulSmall[d.m, k], d.e, FALSE]

\* a + sb * b for operands whose exponents differ by at most 10 (the sums of
\* the source are of numbers between 1 and 256): the exact sum on the common
\* exponent, rounded.
FAddSigned[a \in Double, sb \in {-1, 1}, b \in Double] ==
    IF b.m = BigZero THEN a
    ELSE IF a.m = BigZero THEN [b EXCEPT !.sign = sb * b.sign]
    ELSE LET e  == IF a.e < b.e THEN a.e ELSE b.e
             am == BigShl[a.m, a.e - e]
             bm == BigShl[b.m, b.e - e]
             bs == sb * b.sign
         IN  IF a.sign = bs THEN FRound[a.sign, BigAdd[am, bm], e, FALSE]
             ELSE IF BigLess[am, bm] THEN FRound[bs, BigSub[bm, am], e, FALSE]
             ELSE FRound[a.sign, BigSub[am, bm], e, FALSE]

FAdd[a \in Double, b \in Double] == FAddSigned[a, 1, b]
FSub[a \in Double, b \in Double] == FAddSigned[a, -1, b]

\* Long division in radix 16: `steps` more quotient digits of r / d (r < d).
DivDigits[q \in BigNat, r \in BigNat, d \in BigNat, steps \in Nat] ==
    IF steps = 0 THEN [q |-> q, r |-> r]
    ELSE LET r16   == BigMulSmall[r, 16]
             digit == Cardinality({j \in 1..15 : ~BigLess[r16, BigMulSmall[d, j]]})
         IN  DivDigits[BigAdd[BigMulSmall[q, 16], <<0, 0, digit>>],
                       BigSub[r16, BigMulSmall[d, digit]], d, steps - 1]

\* a / b (b # 0): 57 quotient bits and the remainder as sticky, rounded.
FDiv[a \in Double, b \in Double] ==
    IF a.m = BigZero THEN FZero
    ELSE LET first == ~BigLess[a.m, b.m]
             qr    == DivDigits[IF first THEN BigOne ELSE BigZero,
                                IF first THEN BigSub[a.m, b.m] ELSE a.m, b.m, 14]
         IN  FRound[a.sign * b.sign, qr.q, a.e - b.e - 56, qr.r # BigZero]

\* ~~d : the integer part, towards zero, for |d| < 2^21 (the exponent is then
\* negative and ToInt32 does not wrap).
FTrunc[d \in Double] ==
    IF d.m = BigZero THEN 0
    ELSE d.sign * BigShr[d.m, -d.e][3]

(***************************************************************************)
(* gammaCorrect (lines 86-101)                                             *)
(***************************************************************************)
\* Math.floor(Math.pow(i / 255, 1 / 0.45) * 255 + 0.5) for i = 0..255: the
\* values the loop of lines 89-91 stores into _gammaTable when the module is
\* loaded (index i of the source is position i + 1 here).
BuiltGammaTable ==
    <<   0,   0,   0,   0,   0,   0,   0,   0,   0,   0,   0,   0,   0,   0,   0,   0,
         1,   1,   1,   1,   1,   1,   1,   1,   1,   1,   2,   2,   2,   2,   2,   2,
         3,   3,   3,   3,   3,   3,   4,   4,   4,   4,   5,   5,   5,   5,   6,   6,
         6,   7,   7,   7,   7,   8,   8,   8,   9,   9,   9,  10,  10,  11,  11,  11,
        12,  12,  13,  13,  14,  14,  14,  15,  15,  16,  16,  17,  17,  18,  18,  19,
        19,  20,  20,  21,  22,  22,  23,  23,  24,  25,  25,  26,  26,  27,  28,  28,
        29,  30,  30,  31,  32,  33,  33,  34,  35,  35,  36,  37,  38,  39,  39,  40,
        41,  42,  43,  43,  44,  45,  46,  47,  48,  49,  50,  50,  51,  52,  53,  54,
        55,  56,  57,  58,  59,  60,  61,  62,  63,  64,  65,  66,  67,  68,  69,  71,
        72,  73,  74,  75,  76,  77,  78,  80,  81,  82,  83,  84,  86,  87,  88,  89,
        91,  92,  93,  94,  96,  97,  98, 100, 101, 102, 104, 105, 106, 108, 109, 110,
       112, 113, 115, 116, 118, 119, 121, 122, 123, 125, 126, 128, 130, 131, 133, 134,
       136, 137, 139, 140, 142, 144, 145, 147, 149, 150, 152, 154, 155, 157, 159, 160,
       162, 164, 166, 167, 169, 171, 173, 175, 176, 178, 180, 182, 184, 186, 187, 189,
       191, 193, 195, 197, 199, 201, 203, 205, 207, 209, 211, 213, 215, 217, 219, 221,
       223, 225, 227, 229, 231, 233, 235, 238, 240, 242, 244, 246, 248, 251, 253, 255 >>

\* _gammaTable[i], i a byte
GammaAt(i) == _gammaTable[i + 1]

\* gammaCorrect(color): each of the four bytes through the table, in place.
gammaCorrect(color) ==
    WordOr[WordOr[WordOr[Int32[GammaAt(ByteAt(color, 0))],
                         ShlBytes[Int32[GammaAt(ByteAt(color, 1))], 1]],
                  ShlBytes[Int32[GammaAt(ByteAt(color, 2))], 2]],
           ShlBytes[Int32[GammaAt(ByteAt(color, 3))], 3]]

(***************************************************************************)
(* remap (lines 109-119)                                                   *)
(***************************************************************************)
\* _tmpData[k] for a property key k: an index inside the copy reads the
\* element, anything else (an index outside it, undefined) reads undefined,
\* which a Uint32Array stores as 0.  An index mapping entry is a natural
\* number; the entry of a position past the mapping's end is undefined.
ZeroWord == <<0, 0, 0, 0>>

\* remap without the copy of line 113: position i reads data as the earlier
\* positions have already rewritten it.
RECURSIVE RemapFrom(_, _, _)
RemapFrom(data, indexMapping, i) ==
    IF i > Len(data) THEN data
    ELSE RemapFrom([data EXCEPT ![i] =
                        IF i <= Len(indexMapping) /\ indexMapping[i] + 1 \in 1..Len(data)
                        THEN data[indexMapping[i] + 1]
                        ELSE ZeroWord],
                   indexMapping, i + 1)

remapInPlace(data, indexMapping) == RemapFrom(data, indexMapping, 1)

remap(data, indexMapping) ==
    LET _tmpData == data
    IN  [i \in 1..Len(data) |->
            IF i <= Len(indexMapping) /\ indexMapping[i] + 1 \in 1..Len(_tmpData)
            THEN _tmpData[indexMapping[i] + 1]
            ELSE ZeroWord]

(***************************************************************************)
(* rgbToRgbw (lines 121-149)                                               *)
(***************************************************************************)
Max3(a, b, c) == IF a >= b /\ a >= c THEN a ELSE IF b >= c THEN b ELSE c

\* lines 136-144: the whiteness of a pixel whose largest channel tMax is not 0
Whiteness(rIn, gIn, bIn) ==
    LET tMax       == Max3(rIn, gIn, bIn)
        multiplier == FDiv[FInt[255], FInt[tMax]]
        rHue       == FMulInt[rIn, multiplier]
        gHue       == FMulInt[gIn, multiplier]
        bHue       == FMulInt[bIn, multiplier]
    IN  FTrunc[FDiv[FMulInt[2, FSub[FDiv[FAdd[FMax3[rHue, gHue, bHue],
                                              FMin3[rHue, gHue, bHue]],
                                         FInt[2]],
                                    F127_5]],
                    multiplier]]

\* line 146: (whiteness << 24) | (rIn - whiteness) << 16
\*           | (gIn - whiteness) << 8 | (bIn - whiteness), as an unsigned word
PackRgbw[whiteness \in Int, rIn \in Int, gIn \in Int, bIn \in Int] ==
    WordOr[WordOr[WordOr[ShlBytes[Int32[whiteness], 3],
                         ShlBytes[Int32[rIn - whiteness], 2]],
                  ShlBytes[Int32[gIn - whiteness], 1]],
           Int32[bIn - whiteness]]

\* lines 124-146: one pixel
rgbToRgbwPixel(pixelIn) ==
    LET rIn  == ByteAt(pixelIn, 2)
        gIn  == ByteAt(pixelIn, 1)
        bIn  == ByteAt(pixelIn, 0)
        tMax == Max3(rIn, gIn, bIn)
    IN  IF tMax = 0 THEN pixelIn
        ELSE PackRgbw[Whiteness(rIn, gIn, bIn), rIn, gIn, bIn]

\* The pixel words of the model: those a caller passes to render, those the
\* conversions are applied to on their own, and the word remap stores for a
\* missing element.
Pixels == { <<4, 5, 6, 7>>, <<255, 128, 64, 32>> }

ConvPixels ==
    { <<0, 0, 0, 0>>, <<9, 0, 0, 0>>, <<0, 128, 128, 128>>, <<0, 25, 25, 25>>,
      <<0, 255, 255, 255>>, <<0, 255, 0, 0>>, <<0, 7, 3, 5>>, <<0, 1, 9, 1>>,
      <<0, 3, 2, 200>>, <<4, 5, 6, 7>>, <<255, 128, 64, 32>> }

WordDomain == Pixels \cup ConvPixels \cup { ZeroWord }

\* rgbToRgbwPixel on the words of the model, computed once: the pairs of a
\* word and what the loop body makes of it.
RgbwTable == { << p, rgbToRgbwPixel(p) >> : p \in WordDomain }

RgbwOf(p) == (CHOOSE e \in RgbwTable : e[1] = p)[2]

\* lines 123-147: the loop over the pixels
rgbToRgbw(data) == [i \in 1..Len(data) |-> RgbwOf(data[i])]

\* data.map(gammaCorrect), Uint32Array.prototype.map: a new array of the
\* results; the receiver keeps its elements.
MapGammaCorrect(data) ==
    [receiver |-> data, result |-> [i \in 1..Len(data) |-> gammaCorrect(data[i])]]

(***************************************************************************)
(* Values                                                                  *)
(***************************************************************************)
NullBuffer  == [isNull |-> TRUE, bytes |-> <<>>]
NullMapping == [isNull |-> TRUE, map |-> <<>>]

\* ToBoolean of a flag or an option value
Truthy(v) == v = "true"
\* !!v
BoolOf(v) == IF Truthy(v) THEN "true" ELSE "false"

\* Sequences of at most n elements of S
SeqsUpTo(S, n) == UNION { [1..k -> S] : k \in 0..n }

PixelSeqs == SeqsUpTo(Pixels, MaxLeds)

\* Index mappings a caller registers, for a strip of n pixels: the reversal,
\* one that is not a permutation, one with an entry outside the strip.
Mappings(n) ==
    { [i \in 1..n |-> n - i],
      [i \in 1..n |-> 0],
      [i \in 1..n |-> i] }

\* The options argument of init: left out, null, a value that is not an
\* object, or an object with some of the three options the code reads.
Options(kind, gammaCorrection, rgbToRgbwOption, strip_type) ==
    [kind |-> kind, gammaCorrection |-> gammaCorrection,
     rgbToRgbw |-> rgbToRgbwOption, strip_type |-> strip_type]

NoOptions(kind) == Options(kind, "undefined", "undefined", "undefined")

OptionsInputs ==
    { NoOptions("absent"), NoOptions("null"), NoOptions("number"), NoOptions("object"),
      Options("object", "true", "undefined", "undefined"),
      Options("object", "undefined", "true", "undefined"),
      Options("object", "undefined", "true", "SK6812W"),
      Options("object", "false", "true", "WS2812"),
      Options("object", "true", "true", "SK6812W") }

\* The arguments of init: a strip of 1..MaxLeds pixels with each of the
\* options, and a negative length.
InitInputs ==
    ((1..MaxLeds) \X OptionsInputs) \cup { <<-1, NoOptions("absent")>> }

\* What new Buffer(size) holds before anything is written to it: zeroes, or
\* whatever the allocator left there.
UninitBytes == {0, 170}

\* A brightness the gamma table changes: _gammaTable[128] = 55.
Brightnesses == {128}
RenderArgs   == {"undefined", "true", "false"}

\* line 23: the stub's STRIP_TYPES is {}, so its SK6812W is undefined.
StubSK6812W == "undefined"

\* The native module's STRIP_TYPES names the four-channel strip type.
NativeSK6812W == "SK6812W"

\* lines 14-15: ws281x.STRIP_TYPES.SK6812W
STRIP_TYPES_SK6812W == IF bindings = "stub" THEN StubSK6812W ELSE NativeSK6812W

(***************************************************************************)
(* What a call did: the events of the call, in order.                      *)
(***************************************************************************)
Ev(name, data, frame, value) ==
    [ev |-> name, data |-> data, frame |-> frame, value |-> value]

\* wasInitialized is the value of _isInitialized when the call was made.
NoCall ==
    [op |-> "none", outcome |-> "ok", dataIn |-> <<>>, dataOut |-> <<>>,
     brightness |-> 0, render |-> "undefined", trace |-> <<>>,
     wasInitialized |-> FALSE]

NoInit == [called |-> FALSE, numLeds |-> 0, options |-> NoOptions("absent")]

(***************************************************************************)
(* Initial state: the module has been loaded (lines 3-11, 86-91).          *)
(***************************************************************************)
Init ==
    /\ _isInitialized = FALSE
    /\ _indexMapping = NullMapping
    /\ _outputBuffer = NullBuffer
    /\ _useGammaCorrection = "null"
    /\ _rgbToRgbw = "null"
    /\ _gammaTable = BuiltGammaTable
    /\ bindings \in {"stub", "native"}
    /\ lastInit = NoInit
    /\ lifecycle = "none"
    /\ call = NoCall

(***************************************************************************)
(* ws281x.init (lines 161-169)                                             *)
(***************************************************************************)
\* new Buffer(size), size >= 0: size bytes nobody has written yet.
NewBuffer(size, fill) == [isNull |-> FALSE, bytes |-> [j \in 1..size |-> fill]]

\* line 162: a value that is not of type 'object' is replaced by {};
\* typeof null is 'object', so null stays.
EffectiveOptions(options) ==
    IF options.kind \in {"absent", "number"} THEN NoOptions("object") ELSE options

\* line 166: !!options.rgbToRgbw && options.strip_type === STRIP_TYPES.SK6812W
RgbToRgbwOption(options) ==
    IF Truthy(options.rgbToRgbw) /\ options.strip_type = STRIP_TYPES_SK6812W
    THEN "true" ELSE "false"

\* The statements of init run in order; new Buffer throws a RangeError for a
\* negative size (line 164) and reading a property of null throws a
\* TypeError (line 165).  What was assigned before the throw stays.
ws281x_init(numLeds, options, fill) ==
    LET opts      == EffectiveOptions(options)
        badSize   == numLeds < 0
        nullOpts  == opts.kind = "null"
        outcome   == IF badSize THEN "RangeError"
                     ELSE IF nullOpts THEN "TypeError" ELSE "ok"
    IN  /\ _isInitialized' = TRUE
        /\ _outputBuffer' = IF badSize THEN _outputBuffer
                            ELSE NewBuffer(4 * numLeds, fill)
        /\ _useGammaCorrection' = IF outcome = "ok" THEN BoolOf(opts.gammaCorrection)
                                  ELSE _useGammaCorrection
        /\ _rgbToRgbw' = IF outcome = "ok" THEN RgbToRgbwOption(opts) ELSE _rgbToRgbw
        /\ lastInit' = [called |-> TRUE, numLeds |-> numLeds, options |-> options]
        /\ lifecycle' = "init"
        /\ call' = [NoCall EXCEPT !.op = "init", !.wasInitialized = _isInitialized, !.outcome = outcome,
                       !.trace = IF outcome = "ok"
                                 THEN << Ev("bindings.init", <<>>, NullBuffer, numLeds) >>
                                 ELSE << >>]
        /\ UNCHANGED << _indexMapping, _gammaTable, bindings >>

(***************************************************************************)
(* ws281x.setIndexMapping (lines 178-180)                                  *)
(***************************************************************************)
\* A setIndexMapping behind the guard of render and setBrightness: it
\* registers nothing while _isInitialized is false.
ws281x_setIndexMappingGuarded(mapping) ==
    /\ _indexMapping' = IF _isInitialized THEN mapping ELSE _indexMapping
    /\ call' = [NoCall EXCEPT !.op = "setIndexMapping", !.wasInitialized = _isInitialized,
                   !.outcome = IF _isInitialized THEN "ok" ELSE "NotInitialized"]
    /\ UNCHANGED << _isInitialized, _outputBuffer, _useGammaCorrection, _rgbToRgbw,
                    _gammaTable, bindings, lastInit, lifecycle >>

ws281x_setIndexMapping(mapping) ==
    /\ _indexMapping' = mapping
    /\ call' = [NoCall EXCEPT !.op = "setIndexMapping", !.wasInitialized = _isInitialized]
    /\ UNCHANGED << _isInitialized, _outputBuffer, _useGammaCorrection, _rgbToRgbw,
                    _gammaTable, bindings, lastInit, lifecycle >>

(***************************************************************************)
(* ws281x.render (lines 190-217)                                           *)
(***************************************************************************)
\* buf.writeUInt32BE(value, offset): the most significant byte at offset.
writeUInt32BE(bytes, value, offset) ==
    [j \in 1..Len(bytes) |->
        IF j - 1 \in offset..(offset + 3) THEN ByteAt(value, 3 - (j - 1 - offset))
        ELSE bytes[j]]

\* buf.writeUInt32LE(value, offset), offset + 4 <= buf.length: the least
\* significant byte at offset.
writeUInt32LE(bytes, value, offset) ==
    [j \in 1..Len(bytes) |->
        IF j - 1 \in offset..(offset + 3) THEN ByteAt(value, j - 1 - offset)
        ELSE bytes[j]]

\* lines 209-211: iteration i writes data[i] at offset 4 * i.  Calling a
\* method of null throws a TypeError; writing past the end of the buffer
\* throws a RangeError.  The loop ends at the first iteration that throws,
\* and the words written before it stay written.
WordsWritten(buffer, data) ==
    IF buffer.isNull THEN 0
    ELSE IF Len(data) <= Len(buffer.bytes) \div 4 THEN Len(data)
    ELSE Len(buffer.bytes) \div 4

\* An encoding loop that replaces the buffer by a longer one when the data
\* does not fit.
EncodeLoopGrowing(buffer, data) ==
    [buffer |->
        IF buffer.isNull THEN buffer
        ELSE [buffer EXCEPT !.bytes =
                [j \in 1..(IF 4 * Len(data) > Len(buffer.bytes) THEN 4 * Len(data)
                           ELSE Len(buffer.bytes)) |->
                    LET i == (j - 1) \div 4
                    IN  IF i < Len(data) THEN ByteAt(data[i + 1], (j - 1) % 4)
                        ELSE buffer.bytes[j]]],
     error |-> IF buffer.isNull /\ Len(data) > 0 THEN "TypeError" ELSE "ok"]

EncodeLoop(buffer, data) ==
    LET written == WordsWritten(buffer, data)
    IN  [buffer |->
            IF buffer.isNull THEN buffer
            ELSE [buffer EXCEPT !.bytes =
                    [j \in 1..Len(buffer.bytes) |->
                        LET i == (j - 1) \div 4
                        IN  IF i < written
                            THEN writeUInt32LE(buffer.bytes, data[i + 1], 4 * i)[j]
                            ELSE buffer.bytes[j]]],
         error |->
            IF written = Len(data) THEN "ok"
            ELSE IF buffer.isNull THEN "TypeError" ELSE "RangeError"]

\* lines 197-199
RenderRemap(data) ==
    IF ~_indexMapping.isNull THEN remap(data, _indexMapping.map) ELSE data

\* lines 201-203
RenderRgbToRgbw(data) ==
    IF Truthy(_rgbToRgbw) THEN rgbToRgbw(data) ELSE data

\* lines 205-207: data.map(gammaCorrect); the array map returns is dropped.
RenderGamma(data) ==
    IF Truthy(_useGammaCorrection) THEN MapGammaCorrect(data).receiver
    ELSE data

\* The events of a render that notifies 'beforeRender' only after the remap
\* of lines 197-199.
RenderTraceNotifyLate(data, d1, d2, d3, enc) ==
       (IF ~_indexMapping.isNull THEN << Ev("remap", d1, NullBuffer, 0) >> ELSE << >>)
    \o << Ev("emit beforeRender", d1, NullBuffer, 0) >>
    \o (IF Truthy(_rgbToRgbw) THEN << Ev("rgbToRgbw", d2, NullBuffer, 0) >> ELSE << >>)
    \o (IF Truthy(_useGammaCorrection) THEN << Ev("gammaCorrect", d3, NullBuffer, 0) >>
        ELSE << >>)
    \o << Ev("encode", d3, enc.buffer, 0) >>
    \o (IF enc.error = "ok"
        THEN << Ev("bindings.render", <<>>, enc.buffer, 0),
                Ev("emit render", d3, NullBuffer, 0),
                Ev("return", d3, NullBuffer, 0) >>
        ELSE << >>)

\* The events of a render that transforms a copy: 'render' is notified with,
\* and the call returns, the sequence as the caller passed it.
RenderTraceOfCopy(data, d1, d2, d3, enc) ==
       << Ev("emit beforeRender", data, NullBuffer, 0) >>
    \o (IF ~_indexMapping.isNull THEN << Ev("remap", d1, NullBuffer, 0) >> ELSE << >>)
    \o (IF Truthy(_rgbToRgbw) THEN << Ev("rgbToRgbw", d2, NullBuffer, 0) >> ELSE << >>)
    \o (IF Truthy(_useGammaCorrection) THEN << Ev("gammaCorrect", d3, NullBuffer, 0) >>
        ELSE << >>)
    \o << Ev("encode", d3, enc.buffer, 0) >>
    \o (IF enc.error = "ok"
        THEN << Ev("bindings.render", <<>>, enc.buffer, 0),
                Ev("emit render", data, NullBuffer, 0),
                Ev("return", data, NullBuffer, 0) >>
        ELSE << >>)

\* The events of a render that passed the guard of line 191, in order.
RenderTrace(data, d1, d2, d3, enc) ==
       << Ev("emit beforeRender", data, NullBuffer, 0) >>
    \o (IF ~_indexMapping.isNull THEN << Ev("remap", d1, NullBuffer, 0) >> ELSE << >>)
    \o (IF Truthy(_rgbToRgbw) THEN << Ev("rgbToRgbw", d2, NullBuffer, 0) >> ELSE << >>)
    \o (IF Truthy(_useGammaCorrection) THEN << Ev("gammaCorrect", d3, NullBuffer, 0) >>
        ELSE << >>)
    \o << Ev("encode", d3, enc.buffer, 0) >>
    \o (IF enc.error = "ok"
        THEN << Ev("bindings.render", <<>>, enc.buffer, 0),
                Ev("emit render", d3, NullBuffer, 0),
                Ev("return", d3, NullBuffer, 0) >>
        ELSE << >>)

ws281x_render(data) ==
    IF ~_isInitialized
    THEN /\ call' = [NoCall EXCEPT !.op = "render", !.wasInitialized = _isInitialized, !.outcome = "NotInitialized",
                        !.dataIn = data, !.dataOut = data]
         /\ UNCHANGED << _isInitialized, _indexMapping, _outputBuffer, _useGammaCorrection,
                         _rgbToRgbw, _gammaTable, bindings, lastInit, lifecycle >>
    ELSE \E d1 \in { RenderRemap(data) } :
         \E d2 \in { RenderRgbToRgbw(d1) } :
         \E d3 \in { RenderGamma(d2) } :
         \E enc \in { EncodeLoop(_outputBuffer, d3) } :
             /\ _outputBuffer' = enc.buffer
             /\ call' = [NoCall EXCEPT !.op = "render", !.wasInitialized = _isInitialized, !.outcome = enc.error,
                            !.dataIn = data, !.dataOut = d3,
                            !.trace = RenderTrace(data, d1, d2, d3, enc)]
             /\ UNCHANGED << _isInitialized, _indexMapping, _useGammaCorrection,
                             _rgbToRgbw, _gammaTable, bindings, lastInit, lifecycle >>

(***************************************************************************)
(* ws281x.setBrightness (lines 219-233)                                    *)
(***************************************************************************)
\* lines 224-226
BrightnessForwarded(brightness) ==
    IF Truthy(_useGammaCorrection) THEN GammaAt(brightness % 256) ELSE brightness

\* The calls of a setBrightness that re-renders only for a truthy second
\* argument: if (render) instead of if (render !== false).
SetBrightnessCallsIfTruthy(brightness, render) ==
       << Ev("bindings.setBrightness", <<>>, NullBuffer, BrightnessForwarded(brightness)) >>
    \o (IF Truthy(render) THEN << Ev("bindings.render", <<>>, _outputBuffer, 0) >>
        ELSE << >>)

\* lines 228-232: the calls made to the bindings, in order
SetBrightnessCalls(brightness, render) ==
       << Ev("bindings.setBrightness", <<>>, NullBuffer, BrightnessForwarded(brightness)) >>
    \o (IF render # "false" THEN << Ev("bindings.render", <<>>, _outputBuffer, 0) >>
        ELSE << >>)

ws281x_setBrightness(brightness, render) ==
    /\ call' = IF ~_isInitialized
               THEN [NoCall EXCEPT !.op = "setBrightness", !.wasInitialized = _isInitialized, !.outcome = "NotInitialized",
                        !.brightness = brightness, !.render = render]
               ELSE [NoCall EXCEPT !.op = "setBrightness", !.wasInitialized = _isInitialized,
                        !.brightness = brightness, !.render = render,
                        !.trace = SetBrightnessCalls(brightness, render)]
    /\ UNCHANGED << _isInitialized, _indexMapping, _outputBuffer, _useGammaCorrection,
                    _rgbToRgbw, _gammaTable, bindings, lastInit, lifecycle >>

(***************************************************************************)
(* ws281x.reset (lines 239-244)                                            *)
(***************************************************************************)
\* A reset that releases the buffer and leaves _isInitialized as it is.
ws281x_resetKeepsFlag ==
    /\ _isInitialized' = _isInitialized
    /\ _outputBuffer' = NullBuffer
    /\ lifecycle' = "reset"
    /\ call' = [NoCall EXCEPT !.op = "reset", !.wasInitialized = _isInitialized,
                   !.trace = << Ev("bindings.reset", <<>>, NullBuffer, 0) >>]
    /\ UNCHANGED << _indexMapping, _useGammaCorrection, _rgbToRgbw, _gammaTable,
                    bindings, lastInit >>

\* A reset that also forgets the registered index mapping.
ws281x_resetClearsMapping ==
    /\ _isInitialized' = FALSE
    /\ _outputBuffer' = NullBuffer
    /\ _indexMapping' = NullMapping
    /\ lifecycle' = "reset"
    /\ call' = [NoCall EXCEPT !.op = "reset", !.wasInitialized = _isInitialized,
                   !.trace = << Ev("bindings.reset", <<>>, NullBuffer, 0) >>]
    /\ UNCHANGED << _useGammaCorrection, _rgbToRgbw, _gammaTable, bindings, lastInit >>

\* A reset that also clears the gamma table.
ws281x_resetClearsGammaTable ==
    /\ _isInitialized' = FALSE
    /\ _outputBuffer' = NullBuffer
    /\ _gammaTable' = [i \in 1..256 |-> 0]
    /\ lifecycle' = "reset"
    /\ call' = [NoCall EXCEPT !.op = "reset", !.wasInitialized = _isInitialized,
                   !.trace = << Ev("bindings.reset", <<>>, NullBuffer, 0) >>]
    /\ UNCHANGED << _indexMapping, _useGammaCorrection, _rgbToRgbw, bindings, lastInit >>

\* lines 239-244
ws281x_reset ==
    /\ _isInitialized' = FALSE
    /\ _outputBuffer' = NullBuffer
    /\ lifecycle' = "reset"
    /\ call' = [NoCall EXCEPT !.op = "reset", !.wasInitialized = _isInitialized,
                   !.trace = << Ev("bindings.reset", <<>>, NullBuffer, 0) >>]
    /\ UNCHANGED << _indexMapping, _useGammaCorrection, _rgbToRgbw, _gammaTable,
                    bindings, lastInit >>

(***************************************************************************)
(* The program: any sequence of calls.                                     *)
(***************************************************************************)
MappingInputs ==
    { NullMapping } \cup { [isNull |-> FALSE, map |-> m] : m \in Mappings(MaxLeds) }

Next ==
    \/ \E args \in InitInputs, fill \in UninitBytes :
          ws281x_init(args[1], args[2], fill)
    \/ \E mapping \in MappingInputs : ws281x_setIndexMapping(mapping)
    \/ \E data \in PixelSeqs : ws281x_render(data)
    \/ \E brightness \in Brightnesses, render \in RenderArgs :
          ws281x_setBrightness(brightness, render)
    \/ ws281x_reset

Spec == Init /\ [][Next]_vars

(***************************************************************************)
(* The pixel functions on their own: remap, rgbToRgbw and gammaCorrect     *)
(* applied to a pixel sequence, with no lifecycle around them.             *)
(***************************************************************************)
\* Mappings of up to MaxLeds entries, each an index below MaxLeds.
PureMappings == UNION { [1..k -> 0..(MaxLeds - 1)] : k \in 0..MaxLeds }

PureData == SeqsUpTo(ConvPixels, MaxLeds)

InitPure ==
    /\ _isInitialized = FALSE
    /\ _indexMapping \in { [isNull |-> FALSE, map |-> m] : m \in PureMappings }
    /\ _outputBuffer = NullBuffer
    /\ _useGammaCorrection = "null"
    /\ _rgbToRgbw = "null"
    /\ _gammaTable = BuiltGammaTable
    /\ bindings = "stub"
    /\ lastInit = NoInit
    /\ lifecycle = "none"
    /\ \E data \in PureData :
          call = [NoCall EXCEPT !.op = "data", !.dataIn = data, !.dataOut = data]

\* remap(data, _indexMapping), lines 112-118
ApplyRemap ==
    /\ call.op = "data"
    /\ call' = [call EXCEPT !.op = "remap",
                            !.dataOut = remap(call.dataIn, _indexMapping.map)]
    /\ UNCHANGED << _isInitialized, _indexMapping, _outputBuffer, _useGammaCorrection,
                    _rgbToRgbw, _gammaTable, bindings, lastInit, lifecycle >>

\* rgbToRgbw(data), lines 122-148
ApplyRgbToRgbw ==
    /\ call.op = "data"
    /\ call' = [call EXCEPT !.op = "rgbToRgbw", !.dataOut = rgbToRgbw(call.dataIn)]
    /\ UNCHANGED << _isInitialized, _indexMapping, _outputBuffer, _useGammaCorrection,
                    _rgbToRgbw, _gammaTable, bindings, lastInit, lifecycle >>

\* gammaCorrect(color) on every pixel, lines 93-100: the array map returns
ApplyGammaCorrect ==
    /\ call.op = "data"
    /\ call' = [call EXCEPT !.op = "gammaCorrect",
                            !.dataOut = MapGammaCorrect(call.dataIn).result]
    /\ UNCHANGED << _isInitialized, _indexMapping, _outputBuffer, _useGammaCorrection,
                    _rgbToRgbw, _gammaTable, bindings, lastInit, lifecycle >>

NextPure == ApplyRemap \/ ApplyRgbToRgbw \/ ApplyGammaCorrect

SpecPure == InitPure /\ [][NextPure]_vars

(***************************************************************************)
(* render with listeners that call back into the module.  emit (lines 195  *)
(* and 214) runs the listeners of the event before it returns, and a       *)
(* listener may call init, setIndexMapping, setBrightness or reset.  The   *)
(* render in progress is the call record: its outcome says which emit it   *)
(* is in, and what the listeners do is appended to its trace.  Each        *)
(* notification has one listener, which makes one call; the callers pass   *)
(* valid arguments: strips of 1..MaxLeds pixels, options that are absent   *)
(* or an object, as many pixels as the strip has.                          *)
(***************************************************************************)
RenderInProgress ==
    call.op = "render" /\ call.outcome \in {"in beforeRender", "in render"}

LastEv == call.trace[Len(call.trace)].ev

\* emit is running the listener of 'beforeRender' or of 'render'.
ListenerMayCall ==
    RenderInProgress /\ LastEv \in {"emit beforeRender", "emit render"}

ValidInitInputs ==
    { args \in InitInputs : args[1] >= 1 /\ args[2].kind \in {"absent", "object"} }

\* lines 191-195: the guard, then emit('beforeRender', data)
RenderEnter(data) ==
    /\ ~RenderInProgress
    /\ _isInitialized => Len(data) = lastInit.numLeds
    /\ call' = IF ~_isInitialized
               THEN [NoCall EXCEPT !.op = "render", !.wasInitialized = _isInitialized,
                        !.outcome = "NotInitialized", !.dataIn = data, !.dataOut = data]
               ELSE [NoCall EXCEPT !.op = "render", !.wasInitialized = _isInitialized,
                        !.outcome = "in beforeRender", !.dataIn = data, !.dataOut = data,
                        !.trace = << Ev("emit beforeRender", data, NullBuffer, 0) >>]
    /\ UNCHANGED << _isInitialized, _indexMapping, _outputBuffer, _useGammaCorrection,
                    _rgbToRgbw, _gammaTable, bindings, lastInit, lifecycle >>

\* lines 239-244, called by a listener
ListenerReset ==
    /\ ListenerMayCall
    /\ _isInitialized' = FALSE
    /\ _outputBuffer' = NullBuffer
    /\ lifecycle' = "reset"
    /\ call' = [call EXCEPT !.trace = @ \o << Ev("bindings.reset", <<>>, NullBuffer, 0) >>]
    /\ UNCHANGED << _indexMapping, _useGammaCorrection, _rgbToRgbw, _gammaTable,
                    bindings, lastInit >>

\* lines 161-169, called by a listener with arguments init completes on
ListenerInit(numLeds, options, fill) ==
    /\ ListenerMayCall
    /\ _isInitialized' = TRUE
    /\ _outputBuffer' = NewBuffer(4 * numLeds, fill)
    /\ _useGammaCorrection' = BoolOf(EffectiveOptions(options).gammaCorrection)
    /\ _rgbToRgbw' = RgbToRgbwOption(EffectiveOptions(options))
    /\ lastInit' = [called |-> TRUE, numLeds |-> numLeds, options |-> options]
    /\ lifecycle' = "init"
    /\ call' = [call EXCEPT !.trace = @ \o << Ev("bindings.init", <<>>, NullBuffer, numLeds) >>]
    /\ UNCHANGED << _indexMapping, _gammaTable, bindings >>

\* lines 178-180, called by a listener
ListenerSetIndexMapping(mapping) ==
    /\ ListenerMayCall
    /\ _indexMapping' = mapping
    /\ call' = [call EXCEPT !.trace = @ \o << Ev("setIndexMapping", <<>>, NullBuffer, 0) >>]
    /\ UNCHANGED << _isInitialized, _outputBuffer, _useGammaCorrection, _rgbToRgbw,
                    _gammaTable, bindings, lastInit, lifecycle >>

\* lines 219-233, called by a listener: the error of line 221 leaves emit and
\* render with it.
ListenerSetBrightness(brightness, render) ==
    /\ ListenerMayCall
    /\ call' = IF ~_isInitialized
               THEN [call EXCEPT !.outcome = "NotInitialized"]
               ELSE [call EXCEPT !.trace = @ \o SetBrightnessCalls(brightness, render)]
    /\ UNCHANGED << _isInitialized, _indexMapping, _outputBuffer, _useGammaCorrection,
                    _rgbToRgbw, _gammaTable, bindings, lastInit, lifecycle >>

\* lines 197-214, once emit('beforeRender') has returned: the transformations
\* and the encoding with the flags, mapping and buffer as they are now, then
\* bindings.render and emit('render', data).
RenderPassTrace(d1, d2, d3, enc) ==
       (IF ~_indexMapping.isNull THEN << Ev("remap", d1, NullBuffer, 0) >> ELSE << >>)
    \o (IF Truthy(_rgbToRgbw) THEN << Ev("rgbToRgbw", d2, NullBuffer, 0) >> ELSE << >>)
    \o (IF Truthy(_useGammaCorrection) THEN << Ev("gammaCorrect", d3, NullBuffer, 0) >>
        ELSE << >>)
    \o << Ev("encode", d3, enc.buffer, 0) >>
    \o (IF enc.error = "ok"
        THEN << Ev("bindings.render", <<>>, enc.buffer, 0),
                Ev("emit render", d3, NullBuffer, 0) >>
        ELSE << >>)

RenderPass ==
    /\ RenderInProgress
    /\ call.outcome = "in beforeRender"
    /\ \E d1 \in { RenderRemap(call.dataIn) } :
       \E d2 \in { RenderRgbToRgbw(d1) } :
       \E d3 \in { RenderGamma(d2) } :
       \E enc \in { EncodeLoop(_outputBuffer, d3) } :
           /\ _outputBuffer' = enc.buffer
           /\ call' = [call EXCEPT !.dataOut = d3,
                          !.outcome = IF enc.error = "ok" THEN "in render" ELSE enc.error,
                          !.trace = @ \o RenderPassTrace(d1, d2, d3, enc)]
    /\ UNCHANGED << _isInitialized, _indexMapping, _useGammaCorrection, _rgbToRgbw,
                    _gammaTable, bindings, lastInit, lifecycle >>

\* line 216, once emit('render') has returned
RenderReturn ==
    /\ RenderInProgress
    /\ call.outcome = "in render"
    /\ call' = [call EXCEPT !.outcome = "ok",
                   !.trace = @ \o << Ev("return", call.dataOut, NullBuffer, 0) >>]
    /\ UNCHANGED << _isInitialized, _indexMapping, _outputBuffer, _useGammaCorrection,
                    _rgbToRgbw, _gammaTable, bindings, lastInit, lifecycle >>

NextReentrant ==
    \/ /\ ~RenderInProgress
       /\ \E args \in ValidInitInputs, fill \in UninitBytes :
             ws281x_init(args[1], args[2], fill)
    \/ /\ ~RenderInProgress
       /\ \E mapping \in MappingInputs : ws281x_setIndexMapping(mapping)
    \/ /\ ~RenderInProgress
       /\ ws281x_reset
    \/ \E data \in PixelSeqs : RenderEnter(data)
    \/ ListenerReset
    \/ \E numLeds \in 1..MaxLeds, fill \in UninitBytes :
          ListenerInit(numLeds, NoOptions("absent"), fill)
    \/ \E mapping \in MappingInputs : ListenerSetIndexMapping(mapping)
    \/ \E brightness \in Brightnesses, render \in RenderArgs :
          ListenerSetBrightness(brightness, render)
    \/ RenderPass
    \/ RenderReturn

SpecReentrant == Init /\ [][NextReentrant]_vars

(***************************************************************************)
(* Properties                                                              *)
(***************************************************************************)
\* The names of the events of a call, in order.
EvNames(trace) == [k \in 1..Len(trace) |-> trace[k].ev]

\* The 32-bit word a frame holds at byte offset 4 * i, least significant
\* byte first, as <<most significant, ..., least significant>>.
FrameWord(bytes, i) == << bytes[4 * i + 4], bytes[4 * i + 3], bytes[4 * i + 2], bytes[4 * i + 1] >>

\* The most recent call of init ran to its end.
LastInitCompleted ==
    lastInit.called /\ lastInit.numLeds >= 0 /\ lastInit.options.kind # "null"

\* C1: a render or setBrightness call fails with the not-initialized error
\* exactly when no init has been called yet or the most recent of the init
\* and reset calls was reset; and when the most recent of them was an init,
\* a render of as many pixels as that init's numLeds succeeds.
C1_NotInitializedGuard ==
    /\ call.op \in {"render", "setBrightness"} =>
          (call.outcome = "NotInitialized" <=> lifecycle \in {"none", "reset"})
    /\ (call.op = "render" /\ lifecycle = "init" /\ Len(call.dataIn) = lastInit.numLeds) =>
          call.outcome = "ok"

\* A render after an init followed by a reset, which failed.
C1_Witness ==
    /\ call.op = "render"
    /\ lastInit.called
    /\ lifecycle = "reset"
    /\ call.outcome = "NotInitialized"

\* C2: after an init with gammaCorrection enabled, a successful render
\* leaves in the caller's sequence, and encodes into the frame at offset
\* 4 * i, the remapped and converted pixel i with each of its four bytes
\* replaced by its gamma table entry, byte order kept.
C2_GammaAppliedInPlace ==
    (call.op = "render" /\ call.outcome = "ok" /\ Truthy(lastInit.options.gammaCorrection)) =>
        LET pre == RenderRgbToRgbw(RenderRemap(call.dataIn))
        IN  \A i \in 1..Len(call.dataIn) :
               LET expected == [k \in 1..4 |-> BuiltGammaTable[pre[i][k] + 1]]
               IN  /\ call.dataOut[i] = expected
                   /\ FrameWord(_outputBuffer.bytes, i - 1) = expected

\* C3: after an init that completed, a successful render converts RGB to
\* RGBW only if that init's options request rgbToRgbw and name the SK6812W
\* strip type.
C3_ConversionOnlyForSK6812W ==
    (/\ call.op = "render"
     /\ call.outcome = "ok"
     /\ LastInitCompleted
     /\ ~(Truthy(lastInit.options.rgbToRgbw) /\ lastInit.options.strip_type = "SK6812W")) =>
        \A k \in 1..Len(call.trace) : call.trace[k].ev # "rgbToRgbw"

\* C4: after a successful render of exactly numLeds pixels, the frame handed
\* to bindings.render has 4 * numLeds bytes, and bytes 4 * i .. 4 * i + 3 are
\* the bytes of transformed pixel i, least significant first.
C4_FrameIsLittleEndian ==
    (call.op = "render" /\ call.outcome = "ok" /\ Len(call.dataIn) = lastInit.numLeds) =>
        \A t \in 1..Len(call.trace) :
            call.trace[t].ev = "bindings.render" =>
                LET frame == call.trace[t].frame
                IN  /\ ~frame.isNull
                    /\ Len(frame.bytes) = 4 * lastInit.numLeds
                    /\ \A i \in 0..(lastInit.numLeds - 1) :
                          /\ frame.bytes[4 * i + 1] = call.dataOut[i + 1][4]
                          /\ frame.bytes[4 * i + 2] = call.dataOut[i + 1][3]
                          /\ frame.bytes[4 * i + 3] = call.dataOut[i + 1][2]
                          /\ frame.bytes[4 * i + 4] = call.dataOut[i + 1][1]

\* A successful render of two different pixels on a strip of two.
C4_Witness ==
    /\ call.op = "render"
    /\ call.outcome = "ok"
    /\ lastInit.numLeds = 2
    /\ Len(call.dataIn) = 2
    /\ call.dataOut[1] # call.dataOut[2]
    /\ \E t \in 1..Len(call.trace) : call.trace[t].ev = "bindings.render"

\* C5: the steps of a successful render happen in this order, each at most
\* once: 'beforeRender' with the sequence as the caller passed it, remap if
\* a mapping is registered, rgbToRgbw if the flag is set, gammaCorrect if
\* the flag is set, the encoding, one bindings.render of the frame, 'render'
\* with the transformed sequence, the return of that sequence.
C5_RenderStepsInOrder ==
    (call.op = "render" /\ call.outcome = "ok") =>
        /\ EvNames(call.trace) =
                 << "emit beforeRender" >>
              \o (IF ~_indexMapping.isNull THEN << "remap" >> ELSE << >>)
              \o (IF Truthy(_rgbToRgbw) THEN << "rgbToRgbw" >> ELSE << >>)
              \o (IF Truthy(_useGammaCorrection) THEN << "gammaCorrect" >> ELSE << >>)
              \o << "encode", "bindings.render", "emit render", "return" >>
        /\ call.trace[1].data = call.dataIn
        /\ \A t \in 1..Len(call.trace) :
              /\ call.trace[t].ev = "bindings.render" => call.trace[t].frame = _outputBuffer
              /\ call.trace[t].ev \in {"emit render", "return"} =>
                    call.trace[t].data = call.dataOut

\* A successful render with a mapping registered and both flags set, which
\* changed the sequence.
C5_Witness ==
    /\ call.op = "render"
    /\ call.outcome = "ok"
    /\ ~_indexMapping.isNull
    /\ Truthy(_rgbToRgbw)
    /\ Truthy(_useGammaCorrection)
    /\ Len(call.trace) = 8
    /\ call.dataOut # call.dataIn

\* C6: a setBrightness that passes the guard, the most recent init being
\* one of a strip of at least one pixel, forwards one value to
\* bindings.setBrightness: the gamma table entry of the low byte of the
\* argument if the options of that init enable gammaCorrection, the
\* argument itself if they do not.
C6_BrightnessPerLastInit ==
    (call.op = "setBrightness" /\ call.outcome = "ok" /\ lastInit.numLeds >= 1) =>
        /\ Cardinality({ t \in 1..Len(call.trace) :
                            call.trace[t].ev = "bindings.setBrightness" }) = 1
        /\ call.trace[1].ev = "bindings.setBrightness"
        /\ call.trace[1].value =
              IF Truthy(lastInit.options.gammaCorrection)
              THEN BuiltGammaTable[(call.brightness % 256) + 1]
              ELSE call.brightness

\* C7: a setBrightness that passes the guard, with its second argument true
\* or left out, calls bindings.setBrightness and then bindings.render once
\* with the current frame; with false it calls bindings.setBrightness only.
\* No other call but render hands a frame to bindings.render.
C7_AutoRenderOnce ==
    /\ (call.op = "setBrightness" /\ call.outcome = "ok") =>
          IF call.render # "false"
          THEN /\ EvNames(call.trace) = << "bindings.setBrightness", "bindings.render" >>
               /\ call.trace[2].frame = _outputBuffer
          ELSE EvNames(call.trace) = << "bindings.setBrightness" >>
    /\ (\E t \in 1..Len(call.trace) : call.trace[t].ev = "bindings.render") =>
          \/ call.op = "render"
          \/ call.op = "setBrightness" /\ call.render # "false"

\* A setBrightness with the second argument left out, on an allocated frame.
C7_Witness ==
    /\ call.op = "setBrightness"
    /\ call.outcome = "ok"
    /\ call.render = "undefined"
    /\ Len(call.trace) = 2
    /\ ~call.trace[2].frame.isNull

\* C8: for a mapping at least as long as the sequence whose entries are all
\* indices of the sequence, remap leaves at every position i the pixel that
\* position mapping[i] held before; the identity mapping changes nothing
\* and the reversing mapping reverses the sequence.
C8_RemapReadsSnapshot ==
    LET map == _indexMapping.map
        n   == Len(call.dataIn)
    IN  (/\ call.op = "remap"
         /\ Len(map) >= n
         /\ \A j \in 1..Len(map) : map[j] \in 0..(n - 1)) =>
            /\ Len(call.dataOut) = n
            /\ \A i \in 1..n : call.dataOut[i] = call.dataIn[map[i] + 1]
            /\ (\A i \in 1..n : map[i] = i - 1) => call.dataOut = call.dataIn
            /\ (\A i \in 1..n : map[i] = n - i) =>
                  \A i \in 1..n : call.dataOut[i] = call.dataIn[n + 1 - i]

\* remap of two different pixels with the mapping that swaps them.
C8_Witness ==
    /\ call.op = "remap"
    /\ _indexMapping.map = << 1, 0 >>
    /\ Len(call.dataIn) = 2
    /\ call.dataIn[1] # call.dataIn[2]
    /\ call.dataOut = << call.dataIn[2], call.dataIn[1] >>

\* C9: rgbToRgbw leaves a pixel with R = G = B = 0 as it is; it rewrites any
\* other pixel as white w, R - w, G - w, B - w with w the whiteness of lines
\* 136-144; a gray pixel R = G = B = v, v > 0, becomes white v with
\* R = G = B = 0.
C9_RgbToRgbwPixel ==
    call.op = "rgbToRgbw" =>
        \A i \in 1..Len(call.dataIn) :
            LET r == call.dataIn[i][2]
                g == call.dataIn[i][3]
                b == call.dataIn[i][4]
            IN  /\ (r = 0 /\ g = 0 /\ b = 0) => call.dataOut[i] = call.dataIn[i]
                /\ (r = g /\ g = b /\ r > 0) => call.dataOut[i] = << r, 0, 0, 0 >>
                /\ Max3(r, g, b) > 0 =>
                      LET w == Whiteness(r, g, b)
                      IN  call.dataOut[i] = << w, r - w, g - w, b - w >>

\* C10: an init of a strip of at least one pixel completes whatever its
\* options argument is, leaves _isInitialized set, has called bindings.init,
\* and leaves each flag whose option is not supplied at false.
C10_InitAcceptsAnyOptions ==
    (call.op = "init" /\ lastInit.numLeds >= 1) =>
        /\ call.outcome = "ok"
        /\ _isInitialized
        /\ EvNames(call.trace) = << "bindings.init" >>
        /\ lastInit.options.gammaCorrection = "undefined" => _useGammaCorrection = "false"
        /\ lastInit.options.rgbToRgbw = "undefined" => _rgbToRgbw = "false"

\* C11: a reset, whatever the state it is called in, completes, leaves
\* _isInitialized false and the output buffer released, and calls
\* bindings.reset once; a reset called while _isInitialized is already false
\* leaves _isInitialized, the buffer, both flags and the index mapping as
\* they were.
C11_ResetReleasesAndIsIdempotent ==
    [][call'.op = "reset" =>
          /\ call'.outcome = "ok"
          /\ ~_isInitialized'
          /\ _outputBuffer' = NullBuffer
          /\ EvNames(call'.trace) = << "bindings.reset" >>
          /\ ~_isInitialized =>
                UNCHANGED << _isInitialized, _outputBuffer, _useGammaCorrection,
                             _rgbToRgbw, _indexMapping >>]_vars

\* A reset called after an earlier init and reset, with a flag set and a
\* mapping registered, while _isInitialized was already false.
C11_Witness ==
    /\ call.op = "reset"
    /\ ~call.wasInitialized
    /\ lastInit.called
    /\ Truthy(_useGammaCorrection)
    /\ ~_indexMapping.isNull

\* C12: a setIndexMapping call completes whether _isInitialized is set or
\* not; no call of init, render, setBrightness or reset changes the
\* registered mapping; and a render that passes the guard with a mapping
\* registered continues with the sequence remapped through that mapping.
C12_MappingChangedOnlyBySetIndexMapping ==
    [][/\ call'.op = "setIndexMapping" => call'.outcome = "ok"
       /\ call'.op # "setIndexMapping" => _indexMapping' = _indexMapping
       /\ (call'.op = "render" /\ _isInitialized /\ ~_indexMapping.isNull) =>
             /\ Len(call'.trace) >= 2
             /\ call'.trace[2].ev = "remap"
             /\ call'.trace[2].data = remap(call'.dataIn, _indexMapping.map)]_vars

\* A render of two different pixels on a strip of two, after an init, which
\* the registered mapping reordered.
C12_Witness ==
    /\ call.op = "render"
    /\ call.outcome = "ok"
    /\ lastInit.numLeds = 2
    /\ Len(call.dataIn) = 2
    /\ ~_indexMapping.isNull
    /\ Len(call.trace) >= 2
    /\ call.trace[2].ev = "remap"
    /\ call.trace[2].data = << call.dataIn[2], call.dataIn[1] >>
    /\ call.dataIn[1] # call.dataIn[2]

\* C13: an init of a strip of numLeds >= 1 pixels leaves a fresh output
\* buffer of 4 * numLeds bytes in place of any buffer there was; render and
\* setBrightness never give the controller a buffer where it had none, never
\* take it away and never change its length, and setBrightness does not
\* write to it; a buffer appears only in an init.
C13_BufferAllocatedOnlyByInit ==
    [][/\ (call'.op = "init" /\ lastInit'.numLeds >= 1) =>
             /\ ~_outputBuffer'.isNull
             /\ Len(_outputBuffer'.bytes) = 4 * lastInit'.numLeds
             /\ \E fill \in UninitBytes :
                   \A j \in 1..Len(_outputBuffer'.bytes) : _outputBuffer'.bytes[j] = fill
       /\ call'.op \in {"render", "setBrightness"} =>
             /\ _outputBuffer'.isNull = _outputBuffer.isNull
             /\ ~_outputBuffer.isNull =>
                   Len(_outputBuffer'.bytes) = Len(_outputBuffer.bytes)
       /\ call'.op = "setBrightness" => _outputBuffer' = _outputBuffer
       /\ (_outputBuffer.isNull /\ ~_outputBuffer'.isNull) => call'.op = "init"]_vars

\* A render of two pixels on a strip of one, after which the buffer still has
\* the four bytes the init gave it.
C13_Witness ==
    /\ call.op = "render"
    /\ call.outcome = "RangeError"
    /\ lastInit.numLeds = 1
    /\ Len(call.dataIn) = 2
    /\ ~_outputBuffer.isNull
    /\ Len(_outputBuffer.bytes) = 4

\* C14: after a successful render the caller's sequence has the length it
\* had on entry, it is what the call returns and what 'render' was notified
\* with, and pixel i of it is the word at offset 4 * i of the frame passed to
\* bindings.render.
C14_ReturnsDataAsSent ==
    (call.op = "render" /\ call.outcome = "ok") =>
        /\ Len(call.dataOut) = Len(call.dataIn)
        /\ \E t \in 1..Len(call.trace) :
              /\ call.trace[t].ev = "return"
              /\ call.trace[t].data = call.dataOut
        /\ \E t \in 1..Len(call.trace) :
              /\ call.trace[t].ev = "emit render"
              /\ call.trace[t].data = call.dataOut
        /\ \E t \in 1..Len(call.trace) :
              /\ call.trace[t].ev = "bindings.render"
              /\ \A i \in 1..Len(call.dataOut) :
                    /\ ~call.trace[t].frame.isNull
                    /\ FrameWord(call.trace[t].frame.bytes, i - 1) = call.dataOut[i]

\* A successful render of one pixel on a strip of two, which the conversion
\* to RGBW changed.
C14_Witness ==
    /\ call.op = "render"
    /\ call.outcome = "ok"
    /\ lastInit.numLeds = 2
    /\ Len(call.dataIn) = 1
    /\ Truthy(_rgbToRgbw)
    /\ call.dataOut # call.dataIn

\* C15: in every state the gamma table has 256 entries, entry 0 is 0, entry
\* 255 is 255, no entry is smaller than the one before it, and the table is
\* the one built when the module was loaded.
C15_GammaTableMonotoneAndFixed ==
    /\ Len(_gammaTable) = 256
    /\ GammaAt(0) = 0
    /\ GammaAt(255) = 255
    /\ \A i \in 0..254 : GammaAt(i) <= GammaAt(i + 1)
    /\ _gammaTable = BuiltGammaTable

\* A setBrightness, after an init with gamma correction and a render, that
\* forwarded the table's entry for its argument.
C15_Witness ==
    /\ call.op = "setBrightness"
    /\ call.outcome = "ok"
    /\ Truthy(_useGammaCorrection)
    /\ call.brightness = 128
    /\ Len(call.trace) >= 1
    /\ call.trace[1].value = GammaAt(128)
    /\ GammaAt(128) = 55
    /\ ~_outputBuffer.isNull
    /\ \E j \in 1..Len(_outputBuffer.bytes) : _outputBuffer.bytes[j] \notin UninitBytes

\* C16: in every state _isInitialized is set exactly when there is an output
\* buffer, a buffer there is has 4 * numLeds bytes for the numLeds of the
\* most recent init call, and after an init call that threw, _isInitialized
\* is what it was when the call was made.
C16_InitializedIffBuffer ==
    /\ _isInitialized <=> ~_outputBuffer.isNull
    /\ ~_outputBuffer.isNull => Len(_outputBuffer.bytes) = 4 * lastInit.numLeds
    /\ (call.op = "init" /\ call.outcome # "ok") => _isInitialized = call.wasInitialized

\* C17: when the most recent init was of a strip of at least one pixel, the
\* frame a successful render passes to bindings.render is the encoding of
\* the whole transformed sequence of that render and nothing else; the frame an auto-rendering setBrightness passes to bindings.render
\* is a buffer every word of which some render has written: a pixel of the
\* model as the caller gave it, converted to RGBW, or zeroed by remap.
C17_TransmittedFrameIsCompleteEncoding ==
    /\ (call.op = "render" /\ call.outcome = "ok" /\ lastInit.numLeds >= 1) =>
          \A t \in 1..Len(call.trace) :
              call.trace[t].ev = "bindings.render" =>
                  LET frame == call.trace[t].frame
                  IN  /\ ~frame.isNull
                      /\ Len(frame.bytes) = 4 * Len(call.dataOut)
                      /\ \A i \in 1..Len(call.dataOut) :
                            FrameWord(frame.bytes, i - 1) = call.dataOut[i]
    /\ (call.op = "setBrightness" /\ lastInit.numLeds >= 1) =>
          \A t \in 1..Len(call.trace) :
              call.trace[t].ev = "bindings.render" =>
                  LET frame == call.trace[t].frame
                  IN  /\ ~frame.isNull
                      /\ \A i \in 0..((Len(frame.bytes) \div 4) - 1) :
                            FrameWord(frame.bytes, i) \in
                                Pixels \cup { RgbwOf(p) : p \in Pixels } \cup { ZeroWord }

\* C18: when the listeners of 'beforeRender' and 'render' call init,
\* setIndexMapping, setBrightness or reset during a render, no frame passed
\* to bindings.render is a released buffer, bindings.render is not called by
\* render while _isInitialized is false, and the render ends by returning or
\* with the not-initialized error.
C18_GuardCoversWholeRender ==
    call.op = "render" =>
        /\ \A t \in 1..Len(call.trace) :
              call.trace[t].ev = "bindings.render" => ~call.trace[t].frame.isNull
        /\ (Len(call.trace) > 0 /\ LastEv = "emit render") => _isInitialized
        /\ call.outcome \in {"in beforeRender", "in render", "ok", "NotInitialized"}

\* C19: for every pixel whose R, G and B are not all zero, rgbToRgbw leaves
\* a white byte w with 0 <= w <= min(R, G, B), whatever the white byte was
\* before, and the three bytes R - w, G - w, B - w, each in 0..255; a
\* channel that held the minimum becomes 0.
C19_WhitenessWithinMinimum ==
    call.op = "rgbToRgbw" =>
        \A i \in 1..Len(call.dataIn) :
            LET r == call.dataIn[i][2]
                g == call.dataIn[i][3]
                b == call.dataIn[i][4]
                least == IF r <= g /\ r <= b THEN r ELSE IF g <= b THEN g ELSE b
                w == call.dataOut[i][1]
            IN  Max3(r, g, b) > 0 =>
                   /\ 0 <= w /\ w <= least
                   /\ call.dataOut[i] = << w, r - w, g - w, b - w >>
                   /\ \A k \in 2..4 : call.dataOut[i][k] \in 0..255
                   /\ \A k \in 2..4 : call.dataIn[i][k] = least => call.dataOut[i][k] = 0

====
